---- MODULE Spec2Model ----
(***************************************************************************)
(* Response parsing and classification pipeline of note2quiz_app.py:       *)
(* classify_bloom, call_gemini, generate_mcqs, generate_viva_questions.    *)
(* Python strings are modelled as sequences of one-character strings, so   *)
(* that strip, split, startswith, lower, slicing and the regular           *)
(* expression of generate_viva_questions are computed character by         *)
(* character.                                                              *)
(***************************************************************************)
EXTENDS Integers, Sequences, FiniteSets

(* ------------------------------ bounds --------------------------------- *)
\* longest generated response, counted in tokens of Tokens
MaxTokens == 4
\* largest num_questions a caller passes
MaxLimit == 2

(* ----------------------- Python string primitives ---------------------- *)
UpperChars == <<"A", "B", "C", "D", "E", "F", "G", "H", "I", "J", "K", "L", "M", "N", "O", "P", "Q", "R", "S", "T", "U", "V", "W", "X", "Y", "Z">>
LowerChars == <<"a", "b", "c", "d", "e", "f", "g", "h", "i", "j", "k", "l", "m", "n", "o", "p", "q", "r", "s", "t", "u", "v", "w", "x", "y", "z">>
DigitChars == <<"0", "1", "2", "3", "4", "5", "6", "7", "8", "9">>

\* whitespace as str.strip() and the regex class \s see it
IsSpace(c) == c \in {" ", "\n", "\t"}

\* the regex class \d
IsDigit(c) == \E d \in 1..10 : DigitChars[d] = c

LowerChar(c) ==
  IF \E k \in 1..26 : UpperChars[k] = c
  THEN LowerChars[CHOOSE k \in 1..26 : UpperChars[k] = c]
  ELSE c

\* str.lower()
lower(s) == [k \in 1..Len(s) |-> LowerChar(s[k])]

\* s[n:] for n >= 0
SliceFrom(s, n) == IF n >= Len(s) THEN <<>> ELSE SubSeq(s, n + 1, Len(s))

\* s[:n] for n >= 0
SliceTo(s, n) == IF n >= Len(s) THEN s ELSE SubSeq(s, 1, n)

RECURSIVE lstrip(_)
lstrip(s) == IF s # <<>> /\ IsSpace(Head(s)) THEN lstrip(Tail(s)) ELSE s

RECURSIVE rstrip(_)
rstrip(s) ==
  IF s # <<>> /\ IsSpace(s[Len(s)]) THEN rstrip(SubSeq(s, 1, Len(s) - 1)) ELSE s

\* str.strip()
strip(s) == rstrip(lstrip(s))

\* str.startswith(p)
startswith(s, p) == Len(s) >= Len(p) /\ SubSeq(s, 1, Len(p)) = p

\* the Python test "x in q" on strings
contains(x, q) ==
  \E k \in 0..(Len(q) - Len(x)) : SubSeq(q, k + 1, k + Len(x)) = x

\* position of the first c in s, 0 when there is none
IndexOf(s, c) ==
  IF \E k \in 1..Len(s) : s[k] = c
  THEN CHOOSE k \in 1..Len(s) : s[k] = c /\ \A m \in 1..(k - 1) : s[m] # c
  ELSE 0

\* str.split(c): always at least one piece
RECURSIVE split(_, _)
split(s, c) ==
  LET p == IndexOf(s, c)
  IN  IF p = 0 THEN <<s>>
      ELSE <<SubSeq(s, 1, p - 1)>> \o split(SliceFrom(s, p), c)

\* str(i) for 0 <= i <= 99
str(i) ==
  IF i < 10 THEN <<DigitChars[i + 1]>>
  ELSE <<DigitChars[(i \div 10) + 1], DigitChars[(i % 10) + 1]>>

(* --------------------------- classify_bloom ---------------------------- *)
any_in(keywords, q) == \E k \in 1..Len(keywords) : contains(keywords[k], q)

KnowledgeWords     == << <<"d", "e", "f", "i", "n", "e">>, <<"l", "i", "s", "t">>, <<"n", "a", "m", "e">>, <<"w", "h", "a", "t", " ", "i", "s">>, <<"w", "h", "o", " ", "i", "s">> >>
ComprehensionWords == << <<"e", "x", "p", "l", "a", "i", "n">>, <<"s", "u", "m", "m", "a", "r", "i", "z", "e">>, <<"d", "e", "s", "c", "r", "i", "b", "e">>, <<"i", "d", "e", "n", "t", "i", "f", "y">> >>
ApplicationWords   == << <<"a", "p", "p", "l", "y">>, <<"u", "s", "e">>, <<"s", "o", "l", "v", "e">>, <<"d", "e", "m", "o", "n", "s", "t", "r", "a", "t", "e">> >>
AnalysisWords      == << <<"a", "n", "a", "l", "y", "z", "e">>, <<"c", "o", "m", "p", "a", "r", "e">>, <<"c", "o", "n", "t", "r", "a", "s", "t">>, <<"w", "h", "y">>, <<"e", "x", "a", "m", "i", "n", "e">> >>
SynthesisWords     == << <<"d", "e", "s", "i", "g", "n">>, <<"c", "o", "m", "p", "o", "s", "e">>, <<"c", "r", "e", "a", "t", "e">>, <<"w", "h", "a", "t", " ", "i", "f">>, <<"d", "e", "v", "e", "l", "o", "p">> >>
EvaluationWords    == << <<"e", "v", "a", "l", "u", "a", "t", "e">>, <<"a", "s", "s", "e", "s", "s">>, <<"a", "r", "g", "u", "e">>, <<"c", "r", "i", "t", "i", "q", "u", "e">>, <<"j", "u", "s", "t", "i", "f", "y">> >>

\* classify_bloom with the Analysis test moved before the Application test
classify_bloom_AnalysisFirst(question) ==
  LET q == lower(question)
  IN  IF any_in(KnowledgeWords, q) THEN "Knowledge"
      ELSE IF any_in(ComprehensionWords, q) THEN "Comprehension"
      ELSE IF any_in(AnalysisWords, q) THEN "Analysis"
      ELSE IF any_in(ApplicationWords, q) THEN "Application"
      ELSE IF any_in(SynthesisWords, q) THEN "Synthesis"
      ELSE IF any_in(EvaluationWords, q) THEN "Evaluation"
      ELSE "Unclassified"

\* classify_bloom with the chain of tests in reverse order
classify_bloom_LastWins(question) ==
  LET q == lower(question)
  IN  IF any_in(EvaluationWords, q) THEN "Evaluation"
      ELSE IF any_in(SynthesisWords, q) THEN "Synthesis"
      ELSE IF any_in(AnalysisWords, q) THEN "Analysis"
      ELSE IF any_in(ApplicationWords, q) THEN "Application"
      ELSE IF any_in(ComprehensionWords, q) THEN "Comprehension"
      ELSE IF any_in(KnowledgeWords, q) THEN "Knowledge"
      ELSE "Unclassified"

classify_bloom(question) ==
  LET q == lower(question)
  IN  IF any_in(KnowledgeWords, q) THEN "Knowledge"
      ELSE IF any_in(ComprehensionWords, q) THEN "Comprehension"
      ELSE IF any_in(ApplicationWords, q) THEN "Application"
      ELSE IF any_in(AnalysisWords, q) THEN "Analysis"
      ELSE IF any_in(SynthesisWords, q) THEN "Synthesis"
      ELSE IF any_in(EvaluationWords, q) THEN "Evaluation"
      ELSE "Unclassified"

(* ----------------------------- call_gemini ----------------------------- *)
\* what the environment does to one request
Outcomes == {"no_key", "post_raises", "status_429", "status_error",
             "bad_body", "ok"}

\* the outcomes after which call_gemini has no text to give
FailedOutcomes == Outcomes \ {"ok"}

\* exception classes that are subclasses of requests.exceptions.RequestException
IsRequestException(e) == e \in {"ConnectionError", "HTTPError"}

\* a handler that catches RequestException only
IsException_OnlyRequests(e) == IsRequestException(e)

\* exception classes that are subclasses of Exception
IsException(e) == e \in {"ConnectionError", "HTTPError", "KeyError"}

\* the exception raised inside the try block of call_gemini, "none" if none
RaisedInTry(outcome) ==
  CASE outcome = "post_raises"  -> "ConnectionError"
    [] outcome = "status_error" -> "HTTPError"
    [] outcome = "bad_body"     -> "KeyError"
    [] OTHER                    -> "none"

\* returns [exc, value]: exc is the exception that leaves the function
call_gemini(outcome, text) ==
  IF outcome = "no_key" THEN [exc |-> "none", value |-> <<>>]
  ELSE IF RaisedInTry(outcome) = "none"
       THEN IF outcome = "status_429" THEN [exc |-> "none", value |-> <<>>]
            ELSE [exc |-> "none", value |-> text]
       ELSE IF IsRequestException(RaisedInTry(outcome))
            THEN [exc |-> "none", value |-> <<>>]
            ELSE [exc |-> RaisedInTry(outcome), value |-> <<>>]

\* "if not raw_text: return []" lets the parser run only on non-empty text
ResponseUsable(text) == text # <<>>

(* ------------------------ generate_mcqs: the scan ---------------------- *)
\* the dict current_q: keys is the set of keys present
EmptyDict == [keys |-> {}, question |-> <<>>, options |-> <<>>, answer |-> <<>>]

\* truth value of a dict
Truthy(d) == d.keys # {}

OrdinalPrefixes == {str(n) \o <<".">> : n \in 1..99}

OptionTags == { <<"A", ")">>, <<"B", ")">>, <<"C", ")">>, <<"D", ")">> }

IsOrdinalLine(line) == \E p \in OrdinalPrefixes : startswith(line, p)

IsOptionLine(line) == \E t \in OptionTags : startswith(line, t)

IsAnswerLine(line) == startswith(lower(line), <<"a", "n", "s", "w", "e", "r", ":">>)

\* line.split(":", 1)[-1]
AfterFirstColon(line) ==
  IF IndexOf(line, ":") = 0 THEN line ELSE SliceFrom(line, IndexOf(line, ":"))

\* one iteration of the for loop, up to the early-stop test
ProcessLine(qs, cq, rawline) ==
  LET line == strip(rawline)
  IN  IF IsOrdinalLine(line)
      THEN [questions |-> IF Truthy(cq) THEN Append(qs, cq) ELSE qs,
            current_q |-> [(IF Truthy(cq) THEN EmptyDict ELSE cq)
                             EXCEPT !.keys = @ \cup {"question", "options"},
                                    !.question = line,
                                    !.options = <<>>]]
      ELSE IF IsOptionLine(line)
      THEN [questions |-> qs,
            current_q |-> [cq EXCEPT !.keys = @ \cup {"options"},
                                     !.options = Append(@, line)]]
      ELSE IF IsAnswerLine(line)
      THEN [questions |-> qs,
            current_q |-> [cq EXCEPT !.keys = @ \cup {"answer"},
                                     !.answer = strip(AfterFirstColon(line))]]
      ELSE [questions |-> qs, current_q |-> cq]

\* an early stop that counts the dict under construction
EarlyStop_CountsCurrent(qs, n) == Len(qs) + 1 >= n

\* "if len(questions) >= num_questions: break"
EarlyStop(qs, n) == Len(qs) >= n

\* "if current_q: questions.append(current_q)"
Flush(qs, cq) == IF Truthy(cq) THEN Append(qs, cq) ELSE qs

\* the stored form of one option line
FormatOption(opt) == IF Len(opt) > 2 THEN strip(SliceFrom(opt, 3)) ELSE strip(opt)

\* "formatted" built from all of questions, without the slice
Formatted_NoSlice(qs, n) ==
  [k \in 1..Len(qs) |->
     [question |-> qs[k].question,
      options  |-> [j \in 1..Len(qs[k].options) |->
                      FormatOption(qs[k].options[j])],
      answer   |-> qs[k].answer,
      bloom    |-> classify_bloom(qs[k].question)]]

\* the list "formatted"
Formatted(qs, n) ==
  LET kept == SliceTo(qs, n)
  IN  [k \in 1..Len(kept) |->
         [question |-> kept[k].question,
          options  |-> [j \in 1..Len(kept[k].options) |->
                          FormatOption(kept[k].options[j])],
          answer   |-> kept[k].answer,
          bloom    |-> classify_bloom(kept[k].question)]]

(* ------------------ generate_viva_questions: the regex ----------------- *)
\* first position from k on that holds no digit (Len(s) + 1 at the end)
RECURSIVE DigitsEnd(_, _)
DigitsEnd(s, k) ==
  IF k <= Len(s) /\ IsDigit(s[k]) THEN DigitsEnd(s, k + 1) ELSE k

\* first position from k on that holds no whitespace
RECURSIVE SpaceEnd(_, _)
SpaceEnd(s, k) ==
  IF k <= Len(s) /\ IsSpace(s[k]) THEN SpaceEnd(s, k + 1) ELSE k

\* last position of the line that position k lies in
LineEnd(s, k) ==
  CHOOSE e \in k..Len(s) :
    /\ e = Len(s) \/ s[e + 1] = "\n"
    /\ \A x \in (k + 1)..e : s[x] # "\n"

\* Positions where the group (.+) can start in a match of \d+\.\s*(.+) that
\* starts at k: \d+ takes the whole run of digits (a shorter run is followed
\* by a digit, not a period), \s* takes any prefix of the whitespace run
\* after the period, and (.+) needs one character that is not a newline.
GroupStarts(s, k) ==
  IF k > Len(s) \/ ~IsDigit(s[k]) THEN {}
  ELSE LET d == DigitsEnd(s, k)
       IN  IF d > Len(s) \/ s[d] # "." THEN {}
           ELSE {m \in (d + 1)..SpaceEnd(s, d + 1) : m <= Len(s) /\ s[m] # "\n"}

Max(S) == CHOOSE x \in S : \A y \in S : y <= x

\* re.findall(r"\d+\.\s*(.+)", s) from position k on: the leftmost match,
\* \s* greedy (the largest group start), (.+) greedy (to the end of line),
\* then the search resumes after the match
RECURSIVE findall(_, _)
findall(s, k) ==
  LET starts == {x \in k..Len(s) : GroupStarts(s, x) # {}}
  IN  IF starts = {} THEN <<>>
      ELSE LET b == CHOOSE x \in starts : \A y \in starts : x <= y
               m == Max(GroupStarts(s, b))
               e == LineEnd(s, m)
           IN  <<SubSeq(s, m, e)>> \o findall(s, e + 1)

\* the list "questions" of generate_viva_questions
VivaRecords(ms, n) ==
  LET kept == SliceTo(ms, n)
  IN  [k \in 1..Len(kept) |->
         [question |-> strip(kept[k]), bloom |-> classify_bloom(kept[k])]]

(* ------------------------------- inputs -------------------------------- *)
\* the pieces generated responses are made of
Tokens == { <<"1", ".">>, <<"A", ")">>, <<"\n">>, <<" ">>, <<"U", "s", "e">>, <<"A", "n", "s", "w", "e", "r", ":">> }

RECURSIVE Concat(_)
Concat(ts) == IF ts = <<>> THEN <<>> ELSE Head(ts) \o Concat(Tail(ts))

GeneratedTexts ==
  UNION {{Concat(ts) : ts \in [1..n -> Tokens]} : n \in 0..MaxTokens}

\* the two-question response of the parser's documentation
MCQExample ==
  <<"1", ".", " ", "W", "h", "a", "t", " ", "i", "s", " ", "i", "n", "h", "e", "r", "i", "t", "a", "n", "c", "e", "?", "\n", "A", ")", " ", "A", " ", "c", "l", "a", "s", "s", " ", "f", "e", "a", "t", "u", "r", "e", "\n", "B", ")", " ", "A", " ", "l", "o", "o", "p", " ", "c", "o", "n", "s", "t", "r", "u", "c", "t", "\n", "C", ")", " ", "A", " ", "d", "a", "t", "a", " ", "t", "y", "p", "e", "\n", "D", ")", " ", "A", " ", "d", "a", "t", "a", "b", "a", "s", "e", " ", "t", "e", "r", "m", "\n", "A", "n", "s", "w", "e", "r", ":", " ", "A", ")", " ", "A", " ", "c", "l", "a", "s", "s", " ", "f", "e", "a", "t", "u", "r", "e", "\n", "2", ".", " ", "W", "h", "y", " ", "u", "s", "e", " ", "p", "o", "l", "y", "m", "o", "r", "p", "h", "i", "s", "m", "?", "\n", "A", ")", " ", "S", "p", "e", "e", "d", "\n", "B", ")", " ", "F", "l", "e", "x", "i", "b", "i", "l", "i", "t", "y", "\n", "C", ")", " ", "M", "e", "m", "o", "r", "y", "\n", "D", ")", " ", "S", "y", "n", "t", "a", "x", "\n", "A", "n", "s", "w", "e", "r", ":", " ", "B", ")", " ", "F", "l", "e", "x", "i", "b", "i", "l", "i", "t", "y">>

VivaExample == <<"1", ".", " ", "E", "x", "p", "l", "a", "i", "n", " ", "r", "e", "c", "u", "r", "s", "i", "o", "n", "\n", "2", ".", " ", "C", "o", "m", "p", "a", "r", "e", " ", "s", "t", "a", "c", "k", "s", " ", "a", "n", "d", " ", "q", "u", "e", "u", "e", "s">>

PrecedenceExample == <<"1", ".", " ", "L", "i", "s", "t", " ", "a", "n", "d", " ", "j", "u", "s", "t", "i", "f", "y", " ", "t", "h", "e", " ", "k", "e", "y", " ", "a", "s", "s", "u", "m", "p", "t", "i", "o", "n", "s">>

FiveOptionsExample == <<"1", ".", " ", "N", "a", "m", "e", " ", "o", "n", "e", "\n", "A", ")", " ", "a", "\n", "B", ")", " ", "b", "\n", "C", ")", " ", "c", "\n", "D", ")", " ", "d", "\n", "A", ")", " ", "e", "\n", "A", "N", "S", "W", "E", "R", ":", " ", "D", ")", " ", "d", "\n", "2", ".", " ", "A", "s", "s", "e", "s", "s", " ", "i", "t", "\n", "A", ")", " ", "x">>

OptionFirstExample == <<"B", ")", " ", "F", "l", "e", "x", "i", "b", "i", "l", "i", "t", "y", "\n", "a", "n", "s", "w", "e", "r", ":", " ", "B", "\n", "1", ".", " ", "C", "r", "e", "a", "t", "e", " ", "a", " ", "p", "l", "a", "n", "\n", "2", ".", " ", "W", "h", "a", "t", " ", "i", "f", " ", "i", "t", " ", "f", "a", "i", "l", "s", "?">>

NextLineExample == <<"1", ".", "\n", "2", ".", " ", "E", "x", "p", "l", "a", "i", "n", " ", "r", "e", "c", "u", "r", "s", "i", "o", "n", "\n", "1", "2", ".", " ", " ", "D", "e", "v", "e", "l", "o", "p", " ", "i", "t", " ", "\n", "3", ".", " ">>

Examples == {MCQExample, VivaExample, PrecedenceExample, FiveOptionsExample,
             OptionFirstExample, NextLineExample}

Responses == GeneratedTexts \cup Examples

Kinds == {"generate_mcqs", "generate_viva_questions"}

(* ---------------------------- state machine ---------------------------- *)
VARIABLES
  pc,             \* position of the one synchronous pipeline run
  kind,           \* the function that was called
  num_questions,  \* its argument
  outcome,        \* what the environment did to the request
  exc,            \* exception in flight inside the function, "none" if none
  raw_text,       \* value returned by call_gemini
  raw,            \* generate_mcqs: the lines
  idx,            \* generate_mcqs: index of the next line of the for loop
  questions,      \* generate_mcqs: finalized dicts
  current_q,      \* generate_mcqs: the dict under construction
  matches,        \* generate_viva_questions: result of re.findall
  result,         \* the returned list
  parsed,         \* the parsing code of the function ran
  propagated      \* an exception left the function

vars == <<pc, kind, num_questions, outcome, exc, raw_text, raw, idx, questions,
          current_q, matches, result, parsed, propagated>>

Init ==
  /\ pc = "idle"
  /\ kind = "none"
  /\ num_questions = 0
  /\ outcome = "none"
  /\ exc = "none"
  /\ raw_text = <<>>
  /\ raw = <<>>
  /\ idx = 0
  /\ questions = <<>>
  /\ current_q = EmptyDict
  /\ matches = <<>>
  /\ result = <<>>
  /\ parsed = FALSE
  /\ propagated = FALSE

\* a caller invokes generate_mcqs or generate_viva_questions
Generate ==
  /\ pc = "idle"
  /\ \E f \in Kinds, n \in 0..MaxLimit :
       /\ kind' = f
       /\ num_questions' = n
  /\ pc' = "call"
  /\ UNCHANGED <<outcome, exc, raw_text, raw, idx, questions, current_q,
                 matches, result, parsed, propagated>>

\* raw_text = call_gemini(prompt)
CallGemini ==
  /\ pc = "call"
  /\ \E o \in Outcomes, text \in Responses :
       LET r == call_gemini(o, text)
       IN  /\ outcome' = o
           /\ exc' = r.exc
           /\ raw_text' = r.value
           /\ pc' = IF r.exc = "none" THEN "check" ELSE "except"
  /\ UNCHANGED <<kind, num_questions, raw, idx, questions, current_q, matches,
                 result, parsed, propagated>>

\* "except Exception as e: ... return []"
Except ==
  /\ pc = "except"
  /\ IF IsException(exc)
     THEN /\ result' = <<>>
          /\ propagated' = FALSE
     ELSE /\ propagated' = TRUE
          /\ UNCHANGED result
  /\ exc' = "none"
  /\ pc' = "done"
  /\ UNCHANGED <<kind, num_questions, outcome, raw_text, raw, idx, questions,
                 current_q, matches, parsed>>

\* "if not raw_text: return []"
CheckResponse ==
  /\ pc = "check"
  /\ IF ResponseUsable(raw_text)
     THEN /\ pc' = "parse"
          /\ UNCHANGED result
     ELSE /\ pc' = "done"
          /\ result' = <<>>
  /\ UNCHANGED <<kind, num_questions, outcome, exc, raw_text, raw, idx,
                 questions, current_q, matches, parsed, propagated>>

\* raw = raw_text.strip().split("\n"); questions, current_q = [], {}
SplitLines ==
  /\ pc = "parse"
  /\ kind = "generate_mcqs"
  /\ raw' = split(strip(raw_text), "\n")
  /\ idx' = 1
  /\ questions' = <<>>
  /\ current_q' = EmptyDict
  /\ parsed' = TRUE
  /\ pc' = "loop"
  /\ UNCHANGED <<kind, num_questions, outcome, exc, raw_text, matches, result,
                 propagated>>

\* one iteration of "for line in raw", with the early-stop test at its end
ScanLine ==
  /\ pc = "loop"
  /\ LET st == ProcessLine(questions, current_q, raw[idx])
     IN  /\ questions' = st.questions
         /\ current_q' = st.current_q
         /\ IF EarlyStop(st.questions, num_questions) \/ idx = Len(raw)
            THEN /\ pc' = "flush"
                 /\ UNCHANGED idx
            ELSE /\ pc' = "loop"
                 /\ idx' = idx + 1
  /\ UNCHANGED <<kind, num_questions, outcome, exc, raw_text, raw, matches,
                 result, parsed, propagated>>

\* the flush of current_q, the list "formatted" and the return
FlushAndFormat ==
  /\ pc = "flush"
  /\ questions' = Flush(questions, current_q)
  /\ result' = Formatted(Flush(questions, current_q), num_questions)
  /\ pc' = "done"
  /\ UNCHANGED <<kind, num_questions, outcome, exc, raw_text, raw, idx,
                 current_q, matches, parsed, propagated>>

\* the parsing part of generate_viva_questions
VivaParse ==
  /\ pc = "parse"
  /\ kind = "generate_viva_questions"
  /\ matches' = findall(raw_text, 1)
  /\ result' = VivaRecords(findall(raw_text, 1), num_questions)
  /\ parsed' = TRUE
  /\ pc' = "done"
  /\ UNCHANGED <<kind, num_questions, outcome, exc, raw_text, raw, idx,
                 questions, current_q, propagated>>

Next ==
  \/ Generate
  \/ CallGemini
  \/ Except
  \/ CheckResponse
  \/ SplitLines
  \/ ScanLine
  \/ FlushAndFormat
  \/ VivaParse

Spec == Init /\ [][Next]_vars

(* ------------------------------- claims -------------------------------- *)
Returned == pc = "done" /\ parsed

ReturnedMCQ == Returned /\ kind = "generate_mcqs"

ReturnedViva == Returned /\ kind = "generate_viva_questions"

\* C1: both parsers return at most num_questions records, for every response
\* and every num_questions >= 0; with num_questions = 0 they return the empty
\* list.
AtMostLimit ==
  Returned =>
    /\ Len(result) <= num_questions
    /\ num_questions = 0 => result = <<>>

\* C1 witness: the scan collected more dicts than were asked for
MoreCollectedThanAsked ==
  /\ ReturnedMCQ
  /\ Len(questions) > num_questions
  /\ Len(result) = num_questions

IsMCQExampleRun ==
  ReturnedMCQ /\ raw_text = MCQExample /\ num_questions = 2

MCQExampleFirstRecord ==
  /\ Len(result) = 2
  /\ startswith(result[1].question, <<"1", ".", " ", "W", "h", "a", "t", " ", "i", "s", " ", "i", "n", "h", "e", "r", "i", "t", "a", "n", "c", "e", "?">>)
  /\ result[1].options = << <<"A", " ", "c", "l", "a", "s", "s", " ", "f", "e", "a", "t", "u", "r", "e">>, <<"A", " ", "l", "o", "o", "p", " ", "c", "o", "n", "s", "t", "r", "u", "c", "t">>,
                            <<"A", " ", "d", "a", "t", "a", " ", "t", "y", "p", "e">>, <<"A", " ", "d", "a", "t", "a", "b", "a", "s", "e", " ", "t", "e", "r", "m">> >>
  /\ result[1].answer = <<"A", ")", " ", "A", " ", "c", "l", "a", "s", "s", " ", "f", "e", "a", "t", "u", "r", "e">>
  /\ result[1].bloom = "Knowledge"
  /\ result[2].question = <<"2", ".", " ", "W", "h", "y", " ", "u", "s", "e", " ", "p", "o", "l", "y", "m", "o", "r", "p", "h", "i", "s", "m", "?">>

\* C2 as stated: the two-question example with limit 2 gives two records, the
\* first with the four options, the answer and level Knowledge, the second
\* with level Analysis.
ExampleSecondIsAnalysis ==
  IsMCQExampleRun => MCQExampleFirstRecord /\ result[2].bloom = "Analysis"

\* C2 amended: the same, but the second record ("2. Why use polymorphism?")
\* has level Application: "use" is found before the Analysis group is tried.
ExampleSecondIsApplication ==
  IsMCQExampleRun => MCQExampleFirstRecord /\ result[2].bloom = "Application"

\* C2 witness: the example was parsed with limit 2
MCQExampleParsed == IsMCQExampleRun /\ Len(result) = 2

Labels == <<"Knowledge", "Comprehension", "Application", "Analysis",
            "Synthesis", "Evaluation">>

GroupWords == <<KnowledgeWords, ComprehensionWords, ApplicationWords,
                AnalysisWords, SynthesisWords, EvaluationWords>>

\* the groups with a keyword that occurs in q, case ignored
MatchingGroups(q) == {g \in 1..6 : any_in(GroupWords[g], lower(q))}

FirstGroupLabel(q) ==
  IF MatchingGroups(q) = {} THEN "Unclassified"
  ELSE Labels[CHOOSE g \in MatchingGroups(q) :
                \A h \in MatchingGroups(q) : g <= h]

\* C3: the level of every returned record is one of the seven labels, namely
\* the label of the first group with a keyword occurring case-insensitively in
\* the question, Unclassified when there is none; "List and justify the key
\* assumptions" is Knowledge.
FirstGroupWins ==
  pc = "done" =>
    /\ \A k \in 1..Len(result) :
         /\ result[k].bloom \in {Labels[g] : g \in 1..6} \cup {"Unclassified"}
         /\ result[k].bloom = FirstGroupLabel(result[k].question)
    /\ (ReturnedViva /\ raw_text = PrecedenceExample /\ num_questions > 0)
         => result[1].bloom = "Knowledge"

\* C3 witness: the question with a Knowledge and an Evaluation keyword
PrecedenceClassified ==
  /\ ReturnedViva
  /\ raw_text = PrecedenceExample
  /\ Len(result) = 1
  /\ MatchingGroups(result[1].question) = {1, 6}

\* C4: every stored option is its input line without the two-character tag
\* and the space after it, no character of the text after the tag is lost and
\* no stored option begins with a tag.
OptionsLoseOnlyTheTag ==
  ReturnedMCQ =>
    \A k \in 1..Len(result) : \A j \in 1..Len(result[k].options) :
      /\ result[k].options[j] = strip(SliceFrom(questions[k].options[j], 2))
      /\ ~IsOptionLine(result[k].options[j])

\* C5: every returned MCQ record was started by an ordinal-prefixed line, which
\* is its question, and a response without such a line gives no record.
RecordsStartAtOrdinal ==
  ReturnedMCQ =>
    /\ \A k \in 1..Len(result) :
         result[k].question # <<>> /\ IsOrdinalLine(result[k].question)
    /\ (\A k \in 1..Len(raw) : ~IsOrdinalLine(strip(raw[k]))) => result = <<>>

\* C6: every returned MCQ record has at most four options.
AtMostFourOptions ==
  ReturnedMCQ => \A k \in 1..Len(result) : Len(result[k].options) <= 4

\* C7: no record of the open-question parser has an empty question.
NoEmptyVivaQuestion ==
  ReturnedViva => \A k \in 1..Len(result) : result[k].question # <<>>

\* the matches of the pattern taken line by line
RECURSIVE MatchesPerLine(_)
MatchesPerLine(lines) ==
  IF lines = <<>> THEN <<>>
  ELSE findall(Head(lines), 1) \o MatchesPerLine(Tail(lines))

\* C8: the open-question parser returns, in order and for the first
\* num_questions matches, the trimmed rest of the same line after the ordinal
\* prefix with the classifier's label; the two-line example gives
\* "Explain recursion"/Comprehension and "Compare stacks and queues"/Analysis.
VivaTakesRestOfSameLine ==
  ReturnedViva =>
    /\ result = VivaRecords(MatchesPerLine(split(raw_text, "\n")), num_questions)
    /\ (raw_text = VivaExample /\ num_questions = 2) =>
         result = << [question |-> <<"E", "x", "p", "l", "a", "i", "n", " ", "r", "e", "c", "u", "r", "s", "i", "o", "n">>,
                      bloom |-> "Comprehension"],
                     [question |-> <<"C", "o", "m", "p", "a", "r", "e", " ", "s", "t", "a", "c", "k", "s", " ", "a", "n", "d", " ", "q", "u", "e", "u", "e", "s">>,
                      bloom |-> "Analysis"] >>

\* C9: when the generation call fails or returns no text, the function
\* returns the empty list, its parsing code does not run and no exception
\* leaves it.
FailureGivesEmptyList ==
  (pc = "done" /\ (outcome \in FailedOutcomes \/ raw_text = <<>>)) =>
    result = <<>> /\ ~parsed /\ ~propagated

\* C9 witness: an exception that call_gemini does not catch was handled
UncaughtInCallHandled ==
  pc = "done" /\ outcome = "bad_body" /\ result = <<>>

\* the scan of all lines without the early-stop test, then the flush
RECURSIVE ScanAll(_, _, _)
ScanAll(qs, cq, lines) ==
  IF lines = <<>> THEN Flush(qs, cq)
  ELSE LET st == ProcessLine(qs, cq, Head(lines))
       IN  ScanAll(st.questions, st.current_q, Tail(lines))

Min(a, b) == IF a <= b THEN a ELSE b

\* C10: the result equals the first num_questions records of the scan of all
\* lines without the early stop, and their number is the smaller of
\* num_questions and the number of records of that scan.
EarlyStopKeepsResult ==
  ReturnedMCQ =>
    /\ result = Formatted(ScanAll(<<>>, EmptyDict, raw), num_questions)
    /\ Len(result) = Min(num_questions, Len(ScanAll(<<>>, EmptyDict, raw)))

\* C10 witness: the early stop left lines unread and the last returned record
\* has its options and its answer
StoppedEarlyWithFullLastRecord ==
  /\ ReturnedMCQ
  /\ idx < Len(raw)
  /\ num_questions > 0
  /\ Len(result) = num_questions
  /\ result[Len(result)].options # <<>>
  /\ result[Len(result)].answer # <<>>

====
